---- MODULE Spec2Model ----
(***************************************************************************)
(* The banana bytecode VM (src/src/vm.rs): the Value model, the Op set,    *)
(* Vm::run_next dispatched per instruction, and the Vm::run_to_back loop.  *)
(* Text (Rust String) is a sequence of one-character strings; an f64 is a  *)
(* record holding a sign, a magnitude num/den with den a power of two, or  *)
(* one of the IEEE-754 specials.                                           *)
(***************************************************************************)
EXTENDS Integers, Sequences, FiniteSets, TLC

\* program, stack, globals, ip: the fields of Vm.  pc: where run_to_back is
\* ("loop", "done" once it returned, "panic" once a panic unwound out of it,
\* "capped" once the run left the caps of the model).  panic: the panic raised.
\* output: the lines written by println!.  writes: history of the SetGlobal
\* instructions executed, oldest first.  steps: history of how many times
\* run_next was called, kept as a wrapping counter of the pointer's width.
VARIABLES program, stack, globals, ip, pc, panic, output, writes, steps

vars == <<program, stack, globals, ip, pc, panic, output, writes, steps>>

(***************************************************************************)
(* Bounds of the model.                                                    *)
(***************************************************************************)
\* longest instruction sequence over the whole instruction alphabet
MaxOps == 2
\* longest instruction sequence of the arithmetic program family
MaxArithOps == 3
\* longest instruction sequence of the global-table program family
MaxGlobalOps == 5
\* longest instruction sequence of the control-flow program family
MaxJumpOps == 3
\* longest instruction sequence of the name-aliasing program family
MaxAliasOps == 3
\* longest instruction sequence of the output program family
MaxOutputOps == 4
\* width in bits of the instruction pointer (usize) and of a Jump offset (isize)
PtrBits == 4

Max(S) == CHOOSE x \in S : \A y \in S : y <= x
LongestProgram == Max({MaxOps, MaxArithOps, MaxGlobalOps, MaxJumpOps, MaxAliasOps, MaxOutputOps})
\* caps that only runs with a backward Jump can reach; an f64 of magnitude above
\* MaxNum or finer than 2^-FracBits is outside the model
FracBits == LongestProgram
MaxStack == LongestProgram + 1
MaxOut == LongestProgram + 1
MaxNum == 2 ^ LongestProgram
MaxStrLen == 6 * LongestProgram

USIZE_MAX == 2 ^ PtrBits - 1
ISIZE_MAX == 2 ^ (PtrBits - 1) - 1
ISIZE_MIN == 0 - 2 ^ (PtrBits - 1)

(***************************************************************************)
(* f64                                                                     *)
(***************************************************************************)
RECURSIVE Gcd(_, _)
Gcd(a, b) == IF b = 0 THEN a ELSE Gcd(b, a % b)

RECURSIVE IsPow2(_)
IsPow2(n) == IF n = 1 THEN TRUE ELSE IF n % 2 = 1 THEN FALSE ELSE IsPow2(n \div 2)

\* the finite f64 (-1)^neg * num / den, in lowest terms
F64Fin(neg, num, den) ==
    LET g == Gcd(num, den)
    IN  [k |-> "fin", neg |-> neg, num |-> num \div g, den |-> den \div g]

F64Inf(neg) == [k |-> "inf", neg |-> neg, num |-> 0, den |-> 1]
F64NaN == [k |-> "nan", neg |-> FALSE, num |-> 0, den |-> 1]

\* the f64 of an integer literal such as 2.0
F64Int(i) == IF i < 0 THEN F64Fin(TRUE, 0 - i, 1) ELSE F64Fin(FALSE, i, 1)

F64IsZero(x) == x.k = "fin" /\ x.num = 0

\* the values the model represents exactly
F64InModel(x) ==
    x.k = "fin" => /\ x.num <= MaxNum * x.den
                   /\ IsPow2(x.den)
                   /\ x.den <= 2 ^ FracBits

F64Neg(x) == IF x.k = "nan" THEN x ELSE [x EXCEPT !.neg = ~x.neg]

\* signed numerator of a finite x over the denominator d (a multiple of x.den)
F64Signed(x, d) == (IF x.neg THEN 0 - x.num ELSE x.num) * (d \div x.den)

F64Lcm(a, b) == (a * b) \div Gcd(a, b)

\* lhs + rhs  (vm.rs:99)
F64Add(a, b) ==
    IF a.k = "nan" \/ b.k = "nan" THEN F64NaN
    ELSE IF a.k = "inf" /\ b.k = "inf" THEN (IF a.neg = b.neg THEN a ELSE F64NaN)
    ELSE IF a.k = "inf" THEN a
    ELSE IF b.k = "inf" THEN b
    ELSE LET d == F64Lcm(a.den, b.den)
             s == F64Signed(a, d) + F64Signed(b, d)
         IN  IF s = 0 THEN F64Fin(a.neg /\ b.neg, 0, 1)
             ELSE IF s < 0 THEN F64Fin(TRUE, 0 - s, d)
             ELSE F64Fin(FALSE, s, d)

\* lhs - rhs  (vm.rs:113)
F64Sub(a, b) == F64Add(a, F64Neg(b))

\* lhs * rhs  (vm.rs:125)
F64Mul(a, b) ==
    IF a.k = "nan" \/ b.k = "nan" THEN F64NaN
    ELSE IF (a.k = "inf" /\ F64IsZero(b)) \/ (F64IsZero(a) /\ b.k = "inf") THEN F64NaN
    ELSE IF a.k = "inf" \/ b.k = "inf" THEN F64Inf(a.neg # b.neg)
    ELSE F64Fin(a.neg # b.neg, a.num * b.num, a.den * b.den)

\* lhs / rhs  (vm.rs:137): division by zero gives an infinity or NaN
F64Div(a, b) ==
    IF a.k = "nan" \/ b.k = "nan" THEN F64NaN
    ELSE IF a.k = "inf" /\ b.k = "inf" THEN F64NaN
    ELSE IF a.k = "inf" THEN F64Inf(a.neg # b.neg)
    ELSE IF b.k = "inf" THEN F64Fin(a.neg # b.neg, 0, 1)
    ELSE IF F64IsZero(b) THEN (IF F64IsZero(a) THEN F64NaN ELSE F64Inf(a.neg # b.neg))
    ELSE F64Fin(a.neg # b.neg, a.num * b.den, a.den * b.num)

\* lhs % rhs  (vm.rs:149): the remainder keeps the sign of lhs
F64Rem(a, b) ==
    IF a.k = "nan" \/ b.k = "nan" THEN F64NaN
    ELSE IF a.k = "inf" \/ F64IsZero(b) THEN F64NaN
    ELSE IF b.k = "inf" THEN a
    ELSE LET d == F64Lcm(a.den, b.den)
             x == a.num * (d \div a.den)
             y == b.num * (d \div b.den)
         IN  F64Fin(a.neg, x % y, d)

(***************************************************************************)
(* Text                                                                    *)
(***************************************************************************)
Digit(d) == <<"0", "1", "2", "3", "4", "5", "6", "7", "8", "9">>[d + 1]

RECURSIVE NatDigits(_)
NatDigits(n) == IF n < 10 THEN <<Digit(n)>>
                ELSE NatDigits(n \div 10) \o <<Digit(n % 10)>>

\* decimal digits of r/den, 0 <= r < den, den a power of two
RECURSIVE FracDigits(_, _)
FracDigits(r, den) ==
    IF r = 0 THEN <<>>
    ELSE <<Digit((r * 10) \div den)>> \o FracDigits((r * 10) % den, den)

F64Sign(x) == IF x.neg THEN <<"-">> ELSE <<>>

\* <f64 as Display>::fmt, as used by n.to_string()  (vm.rs:16)
F64Display(x) ==
    IF x.k = "nan" THEN <<"N", "a", "N">>
    ELSE IF x.k = "inf" THEN F64Sign(x) \o <<"i", "n", "f">>
    ELSE F64Sign(x) \o NatDigits(x.num \div x.den)
         \o (IF x.num % x.den = 0 THEN <<>>
             ELSE <<".">> \o FracDigits(x.num % x.den, x.den))

\* a whole number printed without its ".0", as Display prints it
F64DebugBare(x) == F64Display(x)

\* <f64 as Debug>::fmt, as used by {:?}  (vm.rs:159): a whole number keeps ".0"
F64Debug(x) ==
    IF x.k # "fin" THEN F64Display(x)
    ELSE F64Sign(x) \o NatDigits(x.num \div x.den)
         \o <<".">>
         \o (IF x.num % x.den = 0 THEN <<"0">>
             ELSE FracDigits(x.num % x.den, x.den))

(***************************************************************************)
(* Value  (vm.rs:3-38)                                                     *)
(***************************************************************************)
Nil == [type |-> "nil", b |-> FALSE, n |-> F64Int(0), s |-> <<>>]
Bool(b) == [type |-> "bool", b |-> b, n |-> F64Int(0), s |-> <<>>]
Number(n) == [type |-> "number", b |-> FALSE, n |-> n, s |-> <<>>]
String(s) == [type |-> "string", b |-> FALSE, n |-> F64Int(0), s |-> s]

\* a display string that keeps a String apart, in quotes, as its debug form does
to_string_quoted(v) ==
    CASE v.type = "nil" -> <<"n", "i", "l">>
      [] v.type = "bool" -> (IF v.b THEN <<"t", "r", "u", "e">>
                             ELSE <<"f", "a", "l", "s", "e">>)
      [] v.type = "number" -> F64Display(v.n)
      [] v.type = "string" -> <<"\"">> \o v.s \o <<"\"">>

\* Value::to_string
to_string(v) ==
    CASE v.type = "nil" -> <<"n", "i", "l">>
      [] v.type = "bool" -> (IF v.b THEN <<"t", "r", "u", "e">>
                             ELSE <<"f", "a", "l", "s", "e">>)
      [] v.type = "number" -> F64Display(v.n)
      [] v.type = "string" -> v.s

\* Value::get_type
get_type(v) == v.type

\* every String taken as truthy, the empty one too
is_truthy_any_string(v) ==
    CASE v.type = "nil" -> FALSE
      [] v.type = "bool" -> v.b
      [] v.type = "number" -> ~F64IsZero(v.n)
      [] v.type = "string" -> TRUE

\* Value::is_truthy
is_truthy(v) ==
    CASE v.type = "nil" -> FALSE
      [] v.type = "bool" -> v.b
      [] v.type = "number" -> ~F64IsZero(v.n)
      [] v.type = "string" -> Len(v.s) # 0

\* the display string printed in place of the debug form, as by println!("{}")
ValueDisplayOnly(v) == to_string(v)

\* #[derive(Debug)] on Value, as used by println!("{:?}", value)
ValueDebug(v) ==
    CASE v.type = "nil" -> <<"N", "i", "l">>
      [] v.type = "bool" -> <<"B", "o", "o", "l", "(">> \o to_string(v) \o <<")">>
      [] v.type = "number" ->
            <<"N", "u", "m", "b", "e", "r", "(">> \o F64Debug(v.n) \o <<")">>
      [] v.type = "string" ->
            <<"S", "t", "r", "i", "n", "g", "(", "\"">> \o v.s \o <<"\"", ")">>

\* the values the model represents
ValueInModel(v) ==
    /\ v.type = "number" => F64InModel(v.n)
    /\ v.type = "string" => Len(v.s) <= MaxStrLen

(***************************************************************************)
(* Op and Program  (vm.rs:40-58)                                           *)
(***************************************************************************)
MkOp(name, arg) == [op |-> name, arg |-> arg]

ArithNames == {"Add", "Sub", "Mul", "Div", "Mod"}

\* the constant pool of the programs of the model: every variant, both truth
\* values of each, and two entries (4 and 8) with the same display string
Pool == << Nil, Bool(TRUE), Bool(FALSE),
           Number(F64Int(0)), Number(F64Int(1)), Number(F64Int(2)),
           String(<<>>), String(<<"x">>), String(<<"1">>),
           Number(F64Fin(TRUE, 0, 1)), Number(F64Fin(FALSE, 1, 2)), Number(F64NaN) >>

\* constant indices used as global names; Len(Pool) is out of range
NameIdx == {4, 7, 8, Len(Pool)}

\* Jump offsets: short jumps either way and the two isize extremes
Offsets == {0 - 2, 0 - 1, 0, 1, ISIZE_MIN, ISIZE_MAX}

Alphabet ==
    {MkOp("LoadConstant", i) : i \in 0 .. Len(Pool)}
    \cup {MkOp("SetGlobal", i) : i \in NameIdx}
    \cup {MkOp("GetGlobal", i) : i \in NameIdx}
    \cup {MkOp("Jump", o) : o \in Offsets}
    \cup {MkOp(a, 0) : a \in ArithNames \cup {"TestNot", "Print"}}

ArithAlphabet ==
    {MkOp("LoadConstant", i) : i \in 0 .. Len(Pool)}
    \cup {MkOp(a, 0) : a \in ArithNames \cup {"TestNot", "Print"}}

GlobalAlphabet ==
    {MkOp("LoadConstant", i) : i \in {0, 7}}
    \cup {MkOp("SetGlobal", i) : i \in {4, 7, 8}}
    \cup {MkOp("GetGlobal", i) : i \in {4, 8}}

JumpAlphabet ==
    {MkOp("LoadConstant", i) : i \in {1, 2}}
    \cup {MkOp("Jump", o) : o \in Offsets}
    \cup {MkOp(a, 0) : a \in {"TestNot", "Print"}}

OutputAlphabet ==
    {MkOp("LoadConstant", i) : i \in {1, 4, 8}}
    \cup {MkOp("Print", 0)}

\* a constant pool whose entries 0 and 1, and 2 and 3, have the same display
\* string in different variants
AliasPool == << Nil, String(<<"n", "i", "l">>),
                Bool(TRUE), String(<<"t", "r", "u", "e">>),
                String(<<"x">>) >>

AliasAlphabet ==
    {MkOp("LoadConstant", i) : i \in {0, 4}}
    \cup {MkOp("SetGlobal", i) : i \in 0 .. 3}
    \cup {MkOp("GetGlobal", i) : i \in 0 .. 3}

\* examples/hello_world.rs
HelloWorld ==
    [constants |-> <<Number(F64Int(2)), Number(F64Int(4))>>,
     ops |-> <<MkOp("LoadConstant", 0), MkOp("LoadConstant", 1),
               MkOp("Add", 0), MkOp("Print", 0)>>]

\* the instruction sequences of at most n instructions of the alphabet A
HasOps(p, A, n) ==
    \E k \in 0 .. n : \E o \in [1 .. k -> A] : p = [constants |-> Pool, ops |-> o]

\* the instruction sequences of the aliasing family, over their own pool
HasAliasOps(p) ==
    \E k \in 0 .. MaxAliasOps :
        \E o \in [1 .. k -> AliasAlphabet] : p = [constants |-> AliasPool, ops |-> o]

\* the programs of the model
IsProgram(p) ==
    \/ HasOps(p, Alphabet, MaxOps)
    \/ HasOps(p, ArithAlphabet, MaxArithOps)
    \/ HasOps(p, GlobalAlphabet, MaxGlobalOps)
    \/ HasOps(p, JumpAlphabet, MaxJumpOps)
    \/ HasOps(p, OutputAlphabet, MaxOutputOps)
    \/ HasAliasOps(p)
    \/ p = HelloWorld

(***************************************************************************)
(* Vm  (vm.rs:60-65)                                                       *)
(***************************************************************************)
EmptyMap == [k \in {} |-> Nil]

NoPanic == [msg |-> "none", line |-> 0, a |-> "", b |-> ""]

\* Option::unwrap() on None, at the given line of vm.rs
PanicUnwrap(line) ==
    [msg |-> "called Option::unwrap() on a None value", line |-> line, a |-> "", b |-> ""]
\* .expect("Jump out of bounds")
PanicExpect(line) == [msg |-> "Jump out of bounds", line |-> line, a |-> "", b |-> ""]
\* a Vec index past the end
PanicIndex(line) == [msg |-> "index out of bounds", line |-> line, a |-> "", b |-> ""]
\* += 1 overflowing in a build with overflow checks
PanicOverflow(line) == [msg |-> "attempt to add with overflow", line |-> line, a |-> "", b |-> ""]
\* panic!(...) of a match on (lhs, rhs): the verb and the two type tags, as formatted
PanicType(verb, a, b, line) == [msg |-> verb, line |-> line, a |-> a, b |-> b]

\* the programs in which control flow is the matter: the whole alphabet and
\* the control-flow family
IsControlProgram(p) ==
    \/ HasOps(p, Alphabet, MaxOps)
    \/ HasOps(p, JumpAlphabet, MaxJumpOps)

\* the engine the example constructs: empty stack, empty globals, pointer 0
FreshVm ==
    /\ stack = <<>>
    /\ globals = EmptyMap
    /\ ip = 0
    /\ pc = "loop"
    /\ panic = NoPanic
    /\ output = <<>>
    /\ writes = <<>>
    /\ steps = 0

Init == IsProgram(program) /\ FreshVm

ControlInit == IsControlProgram(program) /\ FreshVm

\* the loop condition of run_to_back  (vm.rs:166)
Running == ip < Len(program.ops)

\* self.program.ops[self.ip]  (vm.rs:69)
CurOp == program.ops[ip + 1]

Fetch(name) == pc = "loop" /\ Running /\ CurOp.op = name

Top(s) == s[Len(s)]
Pop(s) == SubSeq(s, 1, Len(s) - 1)

\* a write that keeps the binding a name already has
InsertIfAbsent(g, name, value) ==
    [k \in DOMAIN g \cup {name} |-> IF k \in DOMAIN g THEN g[k] ELSE value]

\* HashMap::insert
Insert(g, name, value) ==
    [k \in DOMAIN g \cup {name} |-> IF k = name THEN value ELSE g[k]]

\* an advance that leaves the pointer where it is
AddOneStuck(p) == {[panicked |-> FALSE, ip |-> p]}

\* += 1 on a usize: past USIZE_MAX it panics (overflow checks on) or wraps
AddOne(p) ==
    IF p < USIZE_MAX THEN {[panicked |-> FALSE, ip |-> p + 1]}
    ELSE {[panicked |-> TRUE, ip |-> p], [panicked |-> FALSE, ip |-> 0]}

\* one more call of run_next
Called == steps' = (steps + 1) % (USIZE_MAX + 1)

\* within the caps of the model
InModel(stk, out) ==
    /\ Len(stk) <= MaxStack
    /\ Len(out) <= MaxOut
    /\ Len(stk) > 0 => ValueInModel(Top(stk))

\* a panic unwinds out of run_next and run_to_back, leaving the Vm as it was reached
Abort(stk, p, pk) ==
    /\ stack' = stk
    /\ ip' = p
    /\ pc' = "panic"
    /\ panic' = pk
    /\ Called
    /\ UNCHANGED <<program, globals, output, writes>>

\* the match arm left (stk, glb, p, out), having made the writes wr; then
\* self.ip += 1  (vm.rs:162)
Finish(stk, glb, p, out, wr) ==
    \E a \in AddOne(p) :
        /\ Called
        /\ IF a.panicked THEN
               /\ stack' = stk
               /\ globals' = glb
               /\ output' = out
               /\ writes' = wr
               /\ ip' = p
               /\ pc' = "panic"
               /\ panic' = PanicOverflow(162)
               /\ UNCHANGED program
           ELSE IF InModel(stk, out) THEN
               /\ stack' = stk
               /\ globals' = glb
               /\ output' = out
               /\ writes' = wr
               /\ ip' = a.ip
               /\ UNCHANGED <<program, pc, panic>>
           ELSE
               /\ pc' = "capped"
               /\ UNCHANGED <<program, stack, globals, ip, panic, output, writes>>

(***************************************************************************)
(* Vm::run_next, one action per match arm  (vm.rs:68-163)                  *)
(***************************************************************************)
\* a load that moves the constant out of the pool, leaving Nil in its place
LoadConstantTake ==
    /\ Fetch("LoadConstant")
    /\ LET index == CurOp.arg
       IN  IF index >= Len(program.constants) THEN Abort(stack, ip, PanicIndex(71))
           ELSE /\ stack' = Append(stack, program.constants[index + 1])
                /\ program' = [program EXCEPT !.constants[index + 1] = Nil]
                /\ ip' = ip + 1
                /\ Called
                /\ UNCHANGED <<globals, pc, panic, output, writes>>

\* a load that pushes Nil for an index past the end of the pool
LoadConstantOrNil ==
    /\ Fetch("LoadConstant")
    /\ LET index == CurOp.arg
           value == IF index >= Len(program.constants) THEN Nil
                    ELSE program.constants[index + 1]
       IN  Finish(Append(stack, value), globals, ip, output, writes)

LoadConstant ==
    /\ Fetch("LoadConstant")
    /\ LET index == CurOp.arg
       IN  IF index >= Len(program.constants) THEN Abort(stack, ip, PanicIndex(71))
           ELSE Finish(Append(stack, program.constants[index + 1]), globals, ip, output, writes)

\* a TestNot that pops and never skips
TestNotNoSkip ==
    /\ Fetch("TestNot")
    /\ IF Len(stack) = 0 THEN Abort(stack, ip, PanicUnwrap(74))
       ELSE Finish(Pop(stack), globals, ip, output, writes)

TestNot ==
    /\ Fetch("TestNot")
    /\ IF Len(stack) = 0 THEN Abort(stack, ip, PanicUnwrap(74))
       ELSE LET value == Top(stack)
                rest == Pop(stack)
            IN  IF is_truthy(value) THEN
                    \E a \in AddOne(ip) :
                        IF a.panicked THEN Abort(rest, ip, PanicOverflow(76))
                        ELSE Finish(rest, globals, a.ip, output, writes)
                ELSE Finish(rest, globals, ip, output, writes)

\* usize::wrapping_add_signed in its place: the sum reduced modulo 2^PtrBits
wrapping_add_signed(p, offset) ==
    [some |-> TRUE, v |-> (p + offset) % (USIZE_MAX + 1)]

\* usize::saturating_add_signed in its place: never None
saturating_add_signed(p, offset) ==
    IF p + offset < 0 THEN [some |-> TRUE, v |-> 0]
    ELSE IF p + offset > USIZE_MAX THEN [some |-> TRUE, v |-> USIZE_MAX]
    ELSE [some |-> TRUE, v |-> p + offset]

\* usize::checked_add_signed
checked_add_signed(p, offset) ==
    IF p + offset < 0 \/ p + offset > USIZE_MAX THEN [some |-> FALSE, v |-> 0]
    ELSE [some |-> TRUE, v |-> p + offset]

\* a Jump that lands on its target, without the trailing advance
JumpNoAdvance ==
    /\ Fetch("Jump")
    /\ LET target == checked_add_signed(ip, CurOp.arg)
       IN  IF ~target.some THEN Abort(stack, ip, PanicExpect(83))
           ELSE /\ ip' = target.v
                /\ Called
                /\ UNCHANGED <<program, stack, globals, pc, panic, output, writes>>

Jump ==
    /\ Fetch("Jump")
    /\ LET target == checked_add_signed(ip, CurOp.arg)
       IN  IF ~target.some THEN Abort(stack, ip, PanicExpect(83))
           ELSE Finish(stack, globals, target.v, output, writes)

SetGlobal ==
    /\ Fetch("SetGlobal")
    /\ IF Len(stack) = 0 THEN Abort(stack, ip, PanicUnwrap(86))
       ELSE LET value == Top(stack)
                rest == Pop(stack)
                index == CurOp.arg
            IN  IF index >= Len(program.constants) THEN Abort(rest, ip, PanicIndex(87))
                ELSE LET name == to_string(program.constants[index + 1])
                     IN  Finish(rest, Insert(globals, name, value), ip, output,
                                Append(writes, [name |-> name, value |-> value,
                                               index |-> index]))

\* a GetGlobal that takes the binding out of the table, as by HashMap::remove
GetGlobalTake ==
    /\ Fetch("GetGlobal")
    /\ LET index == CurOp.arg
       IN  IF index >= Len(program.constants) THEN Abort(stack, ip, PanicIndex(91))
           ELSE LET name == to_string(program.constants[index + 1])
                IN  IF name \notin DOMAIN globals THEN Abort(stack, ip, PanicUnwrap(92))
                    ELSE Finish(Append(stack, globals[name]),
                                [k \in DOMAIN globals \ {name} |-> globals[k]],
                                ip, output, writes)

\* a GetGlobal that pushes Nil for a name with no binding
GetGlobalOrNil ==
    /\ Fetch("GetGlobal")
    /\ LET index == CurOp.arg
       IN  IF index >= Len(program.constants) THEN Abort(stack, ip, PanicIndex(91))
           ELSE LET name == to_string(program.constants[index + 1])
                    value == IF name \in DOMAIN globals THEN globals[name] ELSE Nil
                IN  Finish(Append(stack, value), globals, ip, output, writes)

GetGlobal ==
    /\ Fetch("GetGlobal")
    /\ LET index == CurOp.arg
       IN  IF index >= Len(program.constants) THEN Abort(stack, ip, PanicIndex(91))
           ELSE LET name == to_string(program.constants[index + 1])
                IN  IF name \notin DOMAIN globals THEN Abort(stack, ip, PanicUnwrap(92))
                    ELSE Finish(Append(stack, globals[name]), globals, ip, output, writes)

\* the third arm appending the left operand after the right one
AddResultSwapped(lhs, rhs) ==
    IF lhs.type = "number" /\ rhs.type = "number" THEN Number(F64Add(lhs.n, rhs.n))
    ELSE IF lhs.type = "string" THEN String(lhs.s \o to_string(rhs))
    ELSE IF rhs.type = "string" THEN String(rhs.s \o to_string(lhs))
    ELSE PanicType("Cannot add", get_type(lhs), get_type(rhs), 102)

\* the result of the match of Op::Add on (lhs, rhs): a Value, or the panic
AddResult(lhs, rhs) ==
    IF lhs.type = "number" /\ rhs.type = "number" THEN Number(F64Add(lhs.n, rhs.n))
    ELSE IF lhs.type = "string" THEN String(lhs.s \o to_string(rhs))
    ELSE IF rhs.type = "string" THEN String(to_string(lhs) \o rhs.s)
    ELSE PanicType("Cannot add", get_type(lhs), get_type(rhs), 102)

\* the subtraction taken the other way round: rhs - lhs
SubResultSwapped(lhs, rhs) ==
    IF lhs.type = "number" /\ rhs.type = "number" THEN Number(F64Sub(rhs.n, lhs.n))
    ELSE PanicType("Cannot subtract", get_type(rhs), get_type(lhs), 114)

SubResult(lhs, rhs) ==
    IF lhs.type = "number" /\ rhs.type = "number" THEN Number(F64Sub(lhs.n, rhs.n))
    ELSE PanicType("Cannot subtract", get_type(rhs), get_type(lhs), 114)

MulResult(lhs, rhs) ==
    IF lhs.type = "number" /\ rhs.type = "number" THEN Number(F64Mul(lhs.n, rhs.n))
    ELSE PanicType("Cannot multiply", get_type(lhs), get_type(rhs), 126)

DivResult(lhs, rhs) ==
    IF lhs.type = "number" /\ rhs.type = "number" THEN Number(F64Div(lhs.n, rhs.n))
    ELSE PanicType("Cannot divide", get_type(lhs), get_type(rhs), 138)

\* a remainder that takes a Bool for the Number 1 or 0
ModResultBoolAsNumber(lhs, rhs) ==
    LET num(v) == IF v.type = "bool" THEN Number(F64Int(IF v.b THEN 1 ELSE 0)) ELSE v
    IN  IF num(lhs).type = "number" /\ num(rhs).type = "number"
        THEN Number(F64Rem(num(lhs).n, num(rhs).n))
        ELSE PanicType("Cannot modulo", get_type(lhs), get_type(rhs), 150)

ModResult(lhs, rhs) ==
    IF lhs.type = "number" /\ rhs.type = "number" THEN Number(F64Rem(lhs.n, rhs.n))
    ELSE PanicType("Cannot modulo", get_type(lhs), get_type(rhs), 150)

IsPanic(r) == "msg" \in DOMAIN r

\* the match of the arm of the instruction named op
Result(op, lhs, rhs) ==
    CASE op = "Add" -> AddResult(lhs, rhs)
      [] op = "Sub" -> SubResult(lhs, rhs)
      [] op = "Mul" -> MulResult(lhs, rhs)
      [] op = "Div" -> DivResult(lhs, rhs)
      [] op = "Mod" -> ModResult(lhs, rhs)

\* underflow taken as a no-op: the instruction is skipped and the run goes on
BinaryLenient(op, rhsLine, lhsLine) ==
    IF Len(stack) < 2 THEN Finish(stack, globals, ip, output, writes)
    ELSE LET r == Result(op, Top(Pop(stack)), Top(stack))
         IN  IF IsPanic(r) THEN Abort(Pop(Pop(stack)), ip, r)
             ELSE Finish(Append(Pop(Pop(stack)), r), globals, ip, output, writes)

\* the shape shared by the five arithmetic arms: pop rhs, pop lhs, push the match
Binary(op, rhsLine, lhsLine) ==
    IF Len(stack) = 0 THEN Abort(stack, ip, PanicUnwrap(rhsLine))
    ELSE IF Len(stack) = 1 THEN Abort(Pop(stack), ip, PanicUnwrap(lhsLine))
    ELSE LET rhs == Top(stack)
             lhs == Top(Pop(stack))
             rest == Pop(Pop(stack))
             r == Result(op, lhs, rhs)
         IN  IF IsPanic(r) THEN Abort(rest, ip, r)
             ELSE Finish(Append(rest, r), globals, ip, output, writes)

Add == Fetch("Add") /\ Binary("Add", 96, 97)

Sub == Fetch("Sub") /\ Binary("Sub", 110, 111)

Mul == Fetch("Mul") /\ Binary("Mul", 122, 123)

Div == Fetch("Div") /\ Binary("Div", 134, 135)

Mod == Fetch("Mod") /\ Binary("Mod", 146, 147)

\* Op::Print
PrintOp ==
    /\ Fetch("Print")
    /\ IF Len(stack) = 0 THEN Abort(stack, ip, PanicUnwrap(158))
       ELSE Finish(Pop(stack), globals, ip, Append(output, ValueDebug(Top(stack))), writes)

\* one call of run_next from the loop of run_to_back
Step ==
    \/ LoadConstant
    \/ TestNot
    \/ Jump
    \/ SetGlobal
    \/ GetGlobal
    \/ Add
    \/ Sub
    \/ Mul
    \/ Div
    \/ Mod
    \/ PrintOp

\* a loop that stops one instruction early
ReturnEarly ==
    /\ pc = "loop"
    /\ ip + 1 >= Len(program.ops)
    /\ pc' = "done"
    /\ UNCHANGED <<program, stack, globals, ip, panic, output, writes, steps>>

\* run_to_back returns when the loop condition fails  (vm.rs:166-169)
Return ==
    /\ pc = "loop"
    /\ ~Running
    /\ pc' = "done"
    /\ UNCHANGED <<program, stack, globals, ip, panic, output, writes, steps>>

Next == Step \/ Return

Spec == Init /\ [][Next]_vars

\* run_to_back keeps stepping: nothing suspends or cancels a run
FairSpec == ControlInit /\ [][Next]_vars /\ WF_vars(Next)

(***************************************************************************)
(* Properties                                                              *)
(***************************************************************************)
Halted == ip >= Len(program.ops)
Ended == pc \in {"done", "panic"}

\* C1: a Jump(offset) at pointer p with p + offset representable leaves the
\* pointer at p + offset + 1 in one step, the stack and the global table
\* unchanged, and the run going on; so Jump(0) at p continues at p + 1.
C1_JumpLandsOnePastTarget ==
    [][(Fetch("Jump") /\ ip + CurOp.arg >= 0 /\ ip + CurOp.arg <= USIZE_MAX)
        => /\ ip' = ip + CurOp.arg + 1
           /\ stack' = stack
           /\ globals' = globals
           /\ pc' = "loop"]_vars

\* a Jump(1) at pointer 0 has been executed: the run stands at instruction 2
C1_Witness ==
    /\ pc = "loop"
    /\ Len(program.ops) = 3
    /\ program.ops[1] = MkOp("Jump", 1)
    /\ ip = 2

\* C2 as claimed: a Jump(-1) at any pointer p in range, p = 0 included, is no
\* error and leaves the pointer at p.
C2_JumpBackAnywhere ==
    [][(Fetch("Jump") /\ CurOp.arg = 0 - 1) => (pc' = "loop" /\ ip' = ip)]_vars

\* C2 as amended: a Jump(-1) at a pointer p >= 1 in range is no error and leaves
\* the whole Vm as it is, so that the same Jump is fetched next; at p = 0 it is
\* the fatal error "Jump out of bounds", the Vm left as it is.
C2_JumpBackFromOne ==
    [][(Fetch("Jump") /\ CurOp.arg = 0 - 1)
        => /\ stack' = stack
           /\ globals' = globals
           /\ ip' = ip
           /\ IF ip >= 1 THEN pc' = "loop" /\ panic' = NoPanic
              ELSE pc' = "panic" /\ panic' = PanicExpect(83)]_vars

\* a run stands at a Jump(-1) at a pointer p >= 1 that it reached by executing
\* the instructions before it
C2_Witness ==
    /\ Fetch("Jump")
    /\ CurOp.arg = 0 - 1
    /\ ip >= 1
    /\ program.ops[1].op = "LoadConstant"
    /\ Len(stack) = 1

\* the values the claim calls falsy; -0.0 is the Number 0 too (-0.0 == 0.0)
Falsy(v) ==
    v \in {Nil, Bool(FALSE), String(<<>>),
           Number(F64Fin(FALSE, 0, 1)), Number(F64Fin(TRUE, 0, 1))}

\* C3: TestNot at pointer p on a non-empty stack pops exactly one value and
\* goes on at p + 1 when the value is falsy (Nil, Bool(false), Number(0), the
\* empty String) and at p + 2 when it is any other value.
C3_TestNotSkips ==
    [][(Fetch("TestNot") /\ Len(stack) > 0)
        => /\ stack' = Pop(stack)
           /\ globals' = globals
           /\ pc' = "loop"
           /\ ip' = IF Falsy(Top(stack)) THEN ip + 1 ELSE ip + 2]_vars

\* TestNot has popped the truthy Number(NaN) and skipped one instruction
C3_Witness ==
    /\ pc = "loop"
    /\ Len(program.ops) = 3
    /\ program.ops[1] = MkOp("LoadConstant", 11)
    /\ program.ops[2].op = "TestNot"
    /\ ip = 3
    /\ stack = <<>>

\* no Jump of the program has a negative offset
NoBackJump ==
    \A i \in 1 .. Len(program.ops) :
        program.ops[i].op = "Jump" => program.ops[i].arg >= 0

\* C4 as claimed: every run of run_to_back ends, halted or aborted.  A run the
\* caps of the model cut short counts as ended here, so that only a run that
\* goes on for ever within the caps refutes it.
C4_EveryRunEnds == <>(pc # "loop")

\* C4 as amended: a run of a program with no Jump of negative offset ends,
\* halted or aborted; a program with a backward Jump may run for ever.
C4_RunWithoutBackJumpEnds == NoBackJump ~> Ended

\* a program with a forward Jump in it has run to its end
C4_Witness ==
    /\ pc = "done"
    /\ NoBackJump
    /\ \E i \in 1 .. Len(program.ops) : program.ops[i].op = "Jump"

\* C5: a step that aborts leaves the stack, the global table and the pointer
\* exactly as they were before the step.
C5_AbortIsAtomic ==
    [][(pc = "loop" /\ pc' = "panic")
        => (stack' = stack /\ globals' = globals /\ ip' = ip)]_vars

\* C6: a step is taken only while the pointer is below the number of
\* instructions; run_to_back returns as soon as the pointer is at or beyond it,
\* and from then on the stack, the global table, the pointer and the output
\* never change.
C6_HaltedIsAbsorbing ==
    [][/\ Halted => /\ stack' = stack
                    /\ globals' = globals
                    /\ ip' = ip
                    /\ output' = output
                    /\ panic' = panic
                    /\ pc = "loop" => pc' = "done"
       /\ pc' = "done" => Halted /\ pc \in {"loop", "done"}
       /\ pc = "done" => pc' = "done"]_vars

\* run_to_back has returned with the pointer strictly beyond the last instruction
C6_Witness ==
    /\ pc = "done"
    /\ Len(program.ops) > 0
    /\ ip > Len(program.ops)

\* the value of the latest SetGlobal executed under the name
LastWritten(name) ==
    LET at == {j \in 1 .. Len(writes) : writes[j].name = name}
    IN  writes[Max(at)].value

Written(name) == \E j \in 1 .. Len(writes) : writes[j].name = name

\* C7: a GetGlobal(i) executed after a SetGlobal under the display string of
\* constant i succeeds and pushes the value popped by the latest such
\* SetGlobal, whatever was written before it or under other names.
C7_LastWriteWins ==
    [][(Fetch("GetGlobal") /\ CurOp.arg < Len(program.constants)
            /\ Written(to_string(program.constants[CurOp.arg + 1])))
        => \/ pc' = "capped"
           \/ /\ pc' = "loop"
              /\ stack' = Append(stack,
                     LastWritten(to_string(program.constants[CurOp.arg + 1])))
              /\ globals' = globals]_vars

\* a name was written twice with different values and then read: the second
\* value is on the stack
C7_Witness ==
    /\ pc = "loop"
    /\ Len(writes) = 2
    /\ writes[1].name = writes[2].name
    /\ writes[1].value # writes[2].value
    /\ ip = Len(program.ops)
    /\ program.ops[ip].op = "GetGlobal"
    /\ stack = <<writes[2].value>>

\* C8: a GetGlobal(i) executed when no SetGlobal has been executed under the
\* display string of constant i aborts the run; nothing is pushed.
C8_UnboundGlobalIsFatal ==
    [][(Fetch("GetGlobal") /\ CurOp.arg < Len(program.constants)
            /\ ~Written(to_string(program.constants[CurOp.arg + 1])))
        => /\ pc' = "panic"
           /\ panic' = PanicUnwrap(92)
           /\ stack' = stack
           /\ globals' = globals
           /\ ip' = ip]_vars

\* a run has aborted on reading a name with no binding while another is bound
C8_Witness ==
    /\ pc = "panic"
    /\ panic = PanicUnwrap(92)
    /\ Len(writes) = 1

\* C9: an arithmetic instruction executed on fewer than two values, or TestNot,
\* SetGlobal or Print executed on an empty stack, aborts the run, and an
\* aborted run takes no further step.
C9_UnderflowIsFatal ==
    [][/\ (/\ pc = "loop"
           /\ Running
           /\ \/ CurOp.op \in ArithNames /\ Len(stack) < 2
              \/ CurOp.op \in {"TestNot", "SetGlobal", "Print"} /\ Len(stack) = 0)
          => /\ pc' = "panic"
             /\ panic'.msg = PanicUnwrap(0).msg
             /\ ip' = ip
             /\ globals' = globals
             /\ output' = output
       /\ pc = "panic" => FALSE]_vars

\* Add has aborted for want of a left operand
C9_Witness ==
    /\ pc = "panic"
    /\ panic = PanicUnwrap(97)

\* C10: Add on lhs (pushed first) and rhs (pushed last) pushes the sum of two
\* Numbers; if either is a String it pushes the String display(lhs) followed by
\* display(rhs), so "x" + 1 is "x1" and 1 + "x" is "1x"; every other pair aborts.
C10_Add ==
    [][(Fetch("Add") /\ Len(stack) >= 2 /\ pc' # "capped")
        => LET rhs == Top(stack)
               lhs == Top(Pop(stack))
               rest == Pop(Pop(stack))
           IN  /\ (lhs.type = "number" /\ rhs.type = "number")
                    => /\ pc' = "loop"
                       /\ stack' = Append(rest, Number(F64Add(lhs.n, rhs.n)))
               /\ (lhs.type = "string" \/ rhs.type = "string")
                    => /\ pc' = "loop"
                       /\ stack' = Append(rest, String(to_string(lhs) \o to_string(rhs)))
               /\ (/\ ~(lhs.type = "number" /\ rhs.type = "number")
                   /\ lhs.type # "string"
                   /\ rhs.type # "string")
                    => /\ pc' = "panic"
                       /\ panic'.msg = "Cannot add"
               /\ (lhs = String(<<"x">>) /\ rhs = Number(F64Int(1)))
                    => Top(stack') = String(<<"x", "1">>)
               /\ (lhs = Number(F64Int(1)) /\ rhs = String(<<"x">>))
                    => Top(stack') = String(<<"1", "x">>)
               /\ (lhs = Number(F64Int(1)) /\ rhs = Number(F64Int(2)))
                    => Top(stack') = Number(F64Int(3))]_vars

\* Number(1) + String("x") has pushed String("1x")
C10_Witness ==
    /\ pc = "loop"
    /\ Len(program.ops) = 3
    /\ ip = 3
    /\ program.ops[3].op = "Add"
    /\ stack = <<String(<<"1", "x">>)>>

\* the four instructions defined for Number, Number only
NumericNames == {"Sub", "Mul", "Div", "Mod"}

FetchNumeric == pc = "loop" /\ Running /\ CurOp.op \in NumericNames

\* C11: Sub, Mul, Div and Mod on two Numbers, a pushed first and b pushed last,
\* pop b as the right operand and a as the left one and replace both by the one
\* value a - b, a * b, a / b, a rem b: with 1 then 2 pushed, -1, 2, 0.5 and 1;
\* with 2 then 1 pushed, 1, 2, 2 and 0.
C11_OperandOrder ==
    [][(/\ FetchNumeric
        /\ Len(stack) >= 2
        /\ Top(stack).type = "number"
        /\ Top(Pop(stack)).type = "number")
        => LET b == Top(stack).n
               a == Top(Pop(stack)).n
               rest == Pop(Pop(stack))
               op == CurOp.op
           IN  /\ pc' = "loop"
               /\ Len(stack') = Len(stack) - 1
               /\ Pop(stack') = rest
               /\ Top(stack') = Number(CASE op = "Sub" -> F64Sub(a, b)
                                         [] op = "Mul" -> F64Mul(a, b)
                                         [] op = "Div" -> F64Div(a, b)
                                         [] op = "Mod" -> F64Rem(a, b))
               /\ (a = F64Int(1) /\ b = F64Int(2))
                    => Top(stack') = Number(CASE op = "Sub" -> F64Fin(TRUE, 1, 1)
                                              [] op = "Mul" -> F64Fin(FALSE, 2, 1)
                                              [] op = "Div" -> F64Fin(FALSE, 1, 2)
                                              [] op = "Mod" -> F64Fin(FALSE, 1, 1))
               /\ (a = F64Int(2) /\ b = F64Int(1))
                    => Top(stack') = Number(CASE op = "Sub" -> F64Fin(FALSE, 1, 1)
                                              [] op = "Mul" -> F64Fin(FALSE, 2, 1)
                                              [] op = "Div" -> F64Fin(FALSE, 2, 1)
                                              [] op = "Mod" -> F64Fin(FALSE, 0, 1))]_vars

\* 1 then 2 were pushed and Sub has left the one value -1
C11_Witness ==
    /\ pc = "loop"
    /\ program.ops = <<MkOp("LoadConstant", 4), MkOp("LoadConstant", 5), MkOp("Sub", 0)>>
    /\ ip = 3
    /\ stack = <<Number(F64Fin(TRUE, 1, 1))>>

\* the verb of the panic message of each arithmetic arm
TypeMismatchVerb(op) ==
    CASE op = "Add" -> "Cannot add"
      [] op = "Sub" -> "Cannot subtract"
      [] op = "Mul" -> "Cannot multiply"
      [] op = "Div" -> "Cannot divide"
      [] op = "Mod" -> "Cannot modulo"

\* C12: Sub, Mul, Div and Mod on any pair of operands other than Number, Number
\* (two Strings and pairs with one Number included) abort the run with the
\* type mismatch of that instruction naming the type tags of the two operands;
\* both operands are gone and no result is pushed.  Sub on two Strings cites
\* "string", "string".
C12_TypeMismatchIsFatal ==
    [][(/\ FetchNumeric
        /\ Len(stack) >= 2
        /\ ~(Top(stack).type = "number" /\ Top(Pop(stack)).type = "number"))
        => LET rhs == Top(stack)
               lhs == Top(Pop(stack))
           IN  /\ pc' = "panic"
               /\ panic'.msg = TypeMismatchVerb(CurOp.op)
               /\ \/ panic'.a = get_type(lhs) /\ panic'.b = get_type(rhs)
                  \/ panic'.a = get_type(rhs) /\ panic'.b = get_type(lhs)
               /\ stack' = Pop(Pop(stack))
               /\ ip' = ip
               /\ globals' = globals
               /\ output' = output
               /\ (CurOp.op = "Sub" /\ lhs.type = "string" /\ rhs.type = "string")
                    => panic' = PanicType("Cannot subtract", "string", "string", 114)]_vars

\* Sub on two Strings has aborted the run, citing "string", "string"
C12_Witness ==
    /\ pc = "panic"
    /\ panic = PanicType("Cannot subtract", "string", "string", 114)
    /\ Len(program.ops) = 3
    /\ program.ops[1].op = "LoadConstant"
    /\ program.ops[2].op = "LoadConstant"
    /\ ip = 2
    /\ stack = <<>>

\* the lines println! writes for Number(1.0) and for String("1")
LineNumberOne == <<"N", "u", "m", "b", "e", "r", "(", "1", ".", "0", ")">>
LineStringOne == <<"S", "t", "r", "i", "n", "g", "(", "\"", "1", "\"", ")">>

\* C13: Print on a non-empty stack pops exactly one value and appends exactly
\* one line to the output, the debug form of that value, which shows the
\* variant: Number(1) prints Number(1.0) and String("1") prints String("1");
\* the lines already written stay as they are; no other instruction, and no
\* step that aborts, writes output.
C13_PrintAppendsDebugForm ==
    [][\/ pc' = "capped"
       \/ /\ (Fetch("Print") /\ Len(stack) > 0)
               => /\ pc' = "loop"
                  /\ stack' = Pop(stack)
                  /\ Len(output') = Len(output) + 1
                  /\ SubSeq(output', 1, Len(output)) = output
                  /\ output'[Len(output')] = ValueDebug(Top(stack))
                  /\ Top(stack) = Number(F64Int(1))
                        => output'[Len(output')] = LineNumberOne
                  /\ Top(stack) = String(<<"1">>)
                        => output'[Len(output')] = LineStringOne
          /\ ~(Fetch("Print") /\ Len(stack) > 0) => output' = output]_vars

\* Number(1) then String("1") were pushed and two Prints have run to the end:
\* the output is the two lines in the order printed, top of the stack first
C13_Witness ==
    /\ pc = "done"
    /\ program.ops = <<MkOp("LoadConstant", 4), MkOp("LoadConstant", 8),
                       MkOp("Print", 0), MkOp("Print", 0)>>
    /\ stack = <<>>
    /\ output = <<LineStringOne, LineNumberOne>>

\* the line println! writes for Number(6.0)
LineNumberSix == <<"N", "u", "m", "b", "e", "r", "(", "6", ".", "0", ")">>

\* C14: the run of constants [2, 4] with [LoadConstant(0), LoadConstant(1),
\* Add, Print] from the initial engine never aborts and always has a next
\* step until it has returned; every step advances the pointer by one, so it
\* returns after exactly four steps, with pointer 4, the stack and the global
\* table empty, and the one line Number(6.0) written, by the fourth step.
C14_HelloWorldPrintsSix ==
    program = HelloWorld
        => /\ pc \in {"loop", "done"}
           /\ panic = NoPanic
           /\ pc = "loop" => ENABLED Next
           /\ steps = ip
           /\ ip <= 4
           /\ globals = EmptyMap
           /\ output = IF ip = 4 THEN <<LineNumberSix>> ELSE <<>>
           /\ ip = 3 => stack = <<Number(F64Int(6))>>
           /\ pc = "done" => /\ ip = 4
                             /\ steps = 4
                             /\ stack = <<>>

\* the example has run to its end
C14_Witness ==
    /\ program = HelloWorld
    /\ pc = "done"
    /\ steps = 4
    /\ Len(output) = 1

\* C15: a Jump(offset) at pointer p with p + offset < 0 aborts the run with
\* "Jump out of bounds", the pointer left at p; any other Jump goes on at
\* exactly p + offset + 1, which is below 2^PtrBits because p is below the
\* number of instructions and that number and the offset are at most
\* ISIZE_MAX, so that the overflow never arises.  No step takes the pointer
\* beyond USIZE_MAX, and only a Jump of negative offset ever lowers it.
C15_PointerNeverWraps ==
    [][/\ Fetch("Jump")
            => LET target == ip + CurOp.arg
               IN  /\ Len(program.ops) <= ISIZE_MAX
                   /\ target + 1 <= USIZE_MAX
                   /\ IF target < 0
                      THEN /\ pc' = "panic"
                           /\ panic' = PanicExpect(83)
                           /\ ip' = ip
                      ELSE /\ pc' = "loop"
                           /\ panic' = NoPanic
                           /\ ip' = target + 1
       /\ ip' <= USIZE_MAX
       /\ ip' < ip => Fetch("Jump") /\ CurOp.arg < 0 /\ ip' = ip + CurOp.arg + 1]_vars

\* a Jump(ISIZE_MIN) reached at a pointer p >= 1 has aborted the run
C15_Witness ==
    /\ pc = "panic"
    /\ panic = PanicExpect(83)
    /\ ip >= 1
    /\ CurOp = MkOp("Jump", ISIZE_MIN)

\* the instructions that carry a constant-pool index
IndexedNames == {"LoadConstant", "SetGlobal", "GetGlobal"}

OutOfPool(o) == o.op \in IndexedNames /\ o.arg >= Len(program.constants)

\* C16: a program with an instruction whose index is past the end of the
\* constant pool is run like any other: the run aborts when that instruction
\* is executed (with the index panic, or for SetGlobal on an empty stack with
\* the pop's), nothing else committed, and the index panic arises from no other
\* step, so a run that never reaches the instruction is not affected by it.
C16_IndexCheckedWhenExecuted ==
    [][/\ (pc = "loop" /\ Running /\ OutOfPool(CurOp))
            => /\ pc' = "panic"
               /\ panic' = CASE CurOp.op = "LoadConstant" -> PanicIndex(71)
                             [] CurOp.op = "GetGlobal" -> PanicIndex(91)
                             [] CurOp.op = "SetGlobal" ->
                                    IF Len(stack) = 0 THEN PanicUnwrap(86)
                                    ELSE PanicIndex(87)
               /\ ip' = ip
               /\ globals' = globals
               /\ output' = output
               /\ Len(stack') <= Len(stack)
       /\ (pc = "loop" /\ panic'.msg = PanicIndex(0).msg)
            => Running /\ OutOfPool(CurOp)
       /\ (pc = "loop" /\ Running /\ ~OutOfPool(CurOp)
                /\ \E i \in 1 .. Len(program.ops) : OutOfPool(program.ops[i]))
            => panic'.msg # PanicIndex(0).msg]_vars

\* a run has returned normally although its program holds a LoadConstant past
\* the end of the pool, which a truthy TestNot skipped
C16_Witness ==
    /\ pc = "done"
    /\ Len(program.ops) = 3
    /\ program.ops[2].op = "TestNot"
    /\ program.ops[3] = MkOp("LoadConstant", Len(program.constants))
    /\ ip = 3
    /\ steps = 2

\* C17: no step changes the instruction sequence or the constant pool: after
\* every step, an aborting one too, the program is the one before it, and the
\* entry a LoadConstant has pushed is still in the pool.
C17_ProgramIsReadOnly ==
    [][/\ program'.ops = program.ops
       /\ program'.constants = program.constants
       /\ (Fetch("LoadConstant") /\ pc' = "loop")
            => /\ Top(stack') = program.constants[CurOp.arg + 1]
               /\ program'.constants[CurOp.arg + 1] = Top(stack')]_vars

\* a run that loaded a constant, bound it and read it back twice has returned,
\* the pool still the one it started with
C17_Witness ==
    /\ pc = "done"
    /\ program.ops = <<MkOp("LoadConstant", 7), MkOp("SetGlobal", 8),
                       MkOp("GetGlobal", 4), MkOp("GetGlobal", 8)>>
    /\ program.constants = Pool
    /\ stack = <<String(<<"x">>), String(<<"x">>)>>

\* the constant a SetGlobal or GetGlobal of index i names
Const(i) == program.constants[i + 1]

\* pairs of constants of different variants that the claim says name one global
AliasPairs ==
    LET pairs == { <<Number(F64Int(1)), String(<<"1">>)>>,
                   <<Nil, String(<<"n", "i", "l">>)>>,
                   <<Bool(TRUE), String(<<"t", "r", "u", "e">>)>> }
    IN  pairs \cup {<<q[2], q[1]>> : q \in pairs}

\* the writes made through a constant with the display string of constant i
WritesThrough(i) ==
    {j \in 1 .. Len(writes) : to_string(Const(writes[j].index)) = to_string(Const(i))}

\* C18: a global is named by the display string of the constant, whatever its
\* index or variant.  A GetGlobal(i) executed after SetGlobals through
\* constants with the display string of constant i succeeds and pushes the
\* value of the latest of them; in particular after a SetGlobal through
\* Number(1), Nil or Bool(true) a GetGlobal through String("1"), String("nil")
\* or String("true") pushes the value it stored, and the other way round.  A
\* SetGlobal(i) sets the binding read through every constant with the display
\* string of constant i.
C18_GlobalsAliasByDisplayString ==
    [][\/ pc' = "capped"
       \/ /\ (Fetch("GetGlobal") /\ CurOp.arg < Len(program.constants)
                    /\ WritesThrough(CurOp.arg) # {})
               => /\ pc' = "loop"
                  /\ stack' = Append(stack, writes[Max(WritesThrough(CurOp.arg))].value)
          /\ (Fetch("GetGlobal") /\ CurOp.arg < Len(program.constants)
                    /\ Len(writes) > 0
                    /\ <<Const(writes[Len(writes)].index), Const(CurOp.arg)>> \in AliasPairs)
               => /\ pc' = "loop"
                  /\ stack' = Append(stack, writes[Len(writes)].value)
          /\ (Fetch("SetGlobal") /\ CurOp.arg < Len(program.constants) /\ Len(stack) > 0)
               => \A j \in 0 .. Len(program.constants) - 1 :
                    \/ /\ to_string(Const(j)) # to_string(Const(CurOp.arg))
                       /\ <<Const(j), Const(CurOp.arg)>> \notin AliasPairs
                    \/ /\ to_string(Const(j)) \in DOMAIN globals'
                       /\ globals'[to_string(Const(j))] = Top(stack)]_vars

\* String("x") was bound through Nil and read back through String("nil")
C18_Witness ==
    /\ pc = "done"
    /\ program.constants = AliasPool
    /\ program.ops = <<MkOp("LoadConstant", 4), MkOp("SetGlobal", 0), MkOp("GetGlobal", 1)>>
    /\ stack = <<String(<<"x">>)>>

\* a step of run_next that did not abort
Succeeds == pc = "loop" /\ Running /\ pc' = "loop"

\* C19: a step that succeeds changes the depth of the stack by +1 for
\* LoadConstant and GetGlobal, by -1 for TestNot, SetGlobal, Print and each of
\* Add, Sub, Mul, Div, Mod (two popped, one pushed) and by 0 for Jump, and
\* leaves every element below the operands it consumed as it was; the global
\* table is changed by SetGlobal only, and at the one key it names only;
\* GetGlobal leaves the binding it reads in place.
C19_FrameOfEachStep ==
    [][Succeeds
        => LET op == CurOp.op
               n == Len(stack)
           IN  /\ op \in {"LoadConstant", "GetGlobal"}
                    => /\ Len(stack') = n + 1
                       /\ Pop(stack') = stack
               /\ op \in {"TestNot", "SetGlobal", "Print"}
                    => /\ n >= 1
                       /\ Len(stack') = n - 1
                       /\ stack' = SubSeq(stack, 1, n - 1)
               /\ op \in ArithNames
                    => /\ n >= 2
                       /\ Len(stack') = n - 1
                       /\ Pop(stack') = SubSeq(stack, 1, n - 2)
               /\ op = "Jump" => stack' = stack
               /\ op # "SetGlobal" => globals' = globals
               /\ op = "SetGlobal"
                    => /\ DOMAIN globals' = DOMAIN globals \cup {to_string(Const(CurOp.arg))}
                       /\ \A k \in DOMAIN globals :
                            k # to_string(Const(CurOp.arg)) => globals'[k] = globals[k]
               /\ op = "GetGlobal"
                    => /\ to_string(Const(CurOp.arg)) \in DOMAIN globals'
                       /\ globals'[to_string(Const(CurOp.arg))] = Top(stack')]_vars

\* two names were bound one after the other and the first was read back: it
\* kept its value, and the table holds both
C19_Witness ==
    /\ pc = "done"
    /\ program.ops = <<MkOp("LoadConstant", 0), MkOp("LoadConstant", 7),
                       MkOp("SetGlobal", 4), MkOp("SetGlobal", 7), MkOp("GetGlobal", 4)>>
    /\ DOMAIN globals = {<<"1">>, <<"x">>}
    /\ globals[<<"x">>] = Nil
    /\ stack = <<String(<<"x">>)>>

\* C20: a step that succeeds on any instruction but a Jump of negative offset
\* raises the pointer: by offset + 1 for a Jump, by 1 or 2 for a TestNot that
\* popped a falsy or a truthy value, by 1 for every other instruction.  So in
\* a run of a program with no Jump of negative offset the number of steps
\* taken never exceeds the pointer, but by one for the step that aborted, nor
\* the number of instructions; and until it has ended the run has a next step.
C20_PointerRisesWithoutBackJump ==
    /\ []((NoBackJump /\ pc = "loop") => ENABLED Next)
    /\ [][/\ Succeeds
               => /\ ip' = ip + (CASE CurOp.op = "Jump" -> CurOp.arg + 1
                                   [] CurOp.op = "TestNot" ->
                                        (IF Falsy(Top(stack)) THEN 1 ELSE 2)
                                   [] OTHER -> 1)
                  /\ ~(CurOp.op = "Jump" /\ CurOp.arg < 0) => ip' > ip
          /\ NoBackJump
               => /\ pc' \in {"loop", "done", "panic"}
                  /\ steps' <= Len(program.ops)
                  /\ steps' <= ip' + (IF pc' = "panic" THEN 1 ELSE 0)
                  /\ (pc = "loop" /\ Running /\ pc' = "loop") => ip' > ip]_vars

\* a run with a forward Jump and a skipping TestNot has returned after fewer
\* steps than its program has instructions
C20_Witness ==
    /\ pc = "done"
    /\ NoBackJump
    /\ Len(program.ops) = 3
    /\ program.ops[2].op = "TestNot"
    /\ program.ops[3].op = "Jump"
    /\ steps = 2
    /\ ip = 3

====
